---- MODULE Spec2Model ----
(***************************************************************************)
(* result-guard: the combinator layer of src/src/utils.ts                  *)
(* (raceWithTimeout, withEvents, withIterator, withCallbacks, concurrent)  *)
(* on top of tryCatch, modelled as state machines of the JavaScript event  *)
(* loop: one action per macrotask (a timer firing, an operation settling,  *)
(* an event emitted, a handler called), each action running the chain of   *)
(* promise reactions (microtasks) that follows it to the next suspension.  *)
(***************************************************************************)
EXTENDS Integers, Sequences, FiniteSets, TLC

\* ------------------------------------------------------------------ bounds
MaxOps == 3

TimeoutMs == 5

\* maxConcurrent's default (utils.ts:315): larger than every operation count.
Infinity == 1000000

\* ------------------------------------------------------------- identifiers
OpIds == 1..MaxOps

\* One deadline timer per operation of concurrent, one for withIterator,
\* one for withEvents.
IterTimer == MaxOps + 1

EvTimer == MaxOps + 2

TimerIds == 1..(MaxOps + 2)

NoTimer == 0

VARIABLES
    \* setTimeout timers created by createTimeoutPromise:
    \* "unset" | "pending" | "fired" | "cleared"
    timers,
    \* the timer the closure stored in Promise.prototype.cancel clears
    \* (NoTimer while no createTimeoutPromise call has installed one)
    cancelHook,
    \* ---- concurrent
    cPc,            \* "idle" | "awaitAll" | "done"
    nOps,           \* operations.length
    maxConcurrent,
    timeout,        \* options.timeout, 0 when undefined
    stopOnError,
    bounded,        \* FALSE: the Promise.all of all operations; TRUE: the chunk loop
    i,              \* the chunk loop's index
    chunk,          \* the operations the pending Promise.all waits for
    opKind,         \* what each element of operations is: "async" (a function
                    \*   returning a promise) | "plain" (a function returning a
                    \*   value that is no promise) | "notfn" (not a function)
    opState,        \* "notrun" | "running" | "fulfilled" | "rejected" | "threw"
    opResult,       \* what executeOperation(ops[j]) resolved to, NoResult before
    results,        \* the chunk loop's accumulated list
    returned,       \* the list concurrent returned
    \* ---- withIterator
    itTimeout,      \* options.timeout, 0 when undefined
    maxItemsSet,    \* whether options.maxItems is given
    maxItems,
    hasOnItem,      \* whether options.onItem is given
    hasReturn,      \* whether the sequence has a return() hook
    drainPc,        \* the drain loop (iteratePromise): "idle" | "awaitNext" | "awaitOnItem"
                    \*   | "awaitInnerCleanup" | "fulfilled" | "rejected"
    drainError,     \* what the drain loop rejects with
    outerPc,        \* the wrapped function: "idle" | "awaitDrain" | "awaitCleanup" | "done"
    outcome,        \* what the try block produced: "none" | "values" | "error" | "timeout"
    values,         \* the collected list
    produced,       \* items the sequence has yielded
    nextCalls,      \* calls of iterator.next()
    onItemCalls,    \* calls of options.onItem
    onItemArgs,     \* the items onItem was called with, in call order
    stopItem,       \* the item onItem returned false for, 0 while there is none
    returnCalls,    \* calls of iterator.return()
    nextRaised,     \* a next() step has raised
    returnRaised,   \* a return() call has raised
    itResult,       \* the Result withIterator delivered, NoResult before
    \* ---- withEvents
    evPc,           \* "idle" | "racing" | "cleaning" | "done"
    evTimeout,      \* options.timeout, 0 when undefined
    evHasCleanup,   \* whether options.cleanup is given
    evOp,           \* operation(): "none" | "pending" | "fulfilled" | "rejected" | "threw"
    evListener,     \* the once-listener of this call is registered on the source
    isSettled,
    evWinner,       \* "none" | "value" | "opError" | "event" | "timeout"
    removeCalls,    \* calls of emitter.removeAllListeners(errorEvent)
    evCleanupCalls, \* calls of options.cleanup
    evCleanupRaised,
    emitted,        \* error events the source has emitted
    others,         \* the other listeners of the error event on the source: a subset
                    \* of {"caller", "second"}
    attached,       \* whether the caller attached a listener of its own before the call
    secondPc,       \* a second withEvents call on the same source and event:
                    \* "idle" | "racing" | "done"
    evFirst,        \* the contender that settled first: "none" | "value" | "opError" |
                    \* "event" | "timeout"
    evPayload,      \* what the once-listener was called with, NoPayload before
    evResult,       \* the Result withEvents delivered, NoResult before
    \* ---- withCallbacks
    cbPc,           \* "idle" | "setup" (inside setup) | "armed" (the executor is over)
    cbTimeout,      \* options.timeout, 0 when undefined
    cbDeferred,     \* the promise: NoResult while pending, else what it settled to
    cbCleanup,      \* the closure setup returned: "noop" | "user"
    cbTimer,        \* the deadline timer: "unset" | "pending" | "fired" | "cleared"
    cbCleanupCalls, \* calls of the closure setup returned
    cbCalls,        \* calls of resolve and reject so far
    cbFirst,        \* what the first event (setup raising, resolve, reject, deadline)
                    \*   asks for, NoResult before
    cbEscaped,      \* an exception of the cleanup closure left wrappedResolve,
                    \*   wrappedReject or the timer callback uncaught
    cbResult,       \* the Result withCallbacks delivered, NoResult before
    \* ---- tryCatch
    tcPc,           \* "idle" | "awaiting" (the call returned the promise of a Result)
    tcLog,          \* the calls that are over, in order: what fn did and what the
                    \*   caller got
    \* ---- pipe
    ppPc,           \* "idle" | "awaitStep" | "done"
    ppSteps,        \* the number of steps in the list
    ppInitial,      \* the initial value
    ppCalls,        \* the step invocations so far, in order: <<step, <<argument>>>>
    ppReturns,      \* the Results the invoked steps have returned, in order
    ppResult        \* the Result pipe delivered, NoResult before

timerVars == <<timers, cancelHook>>

concVars == <<cPc, nOps, maxConcurrent, timeout, stopOnError, bounded, i, chunk,
              opKind, opState, opResult, results, returned>>

iterVars == <<itTimeout, maxItemsSet, maxItems, hasOnItem, hasReturn, drainPc, drainError,
              outerPc, outcome, values, produced, nextCalls, onItemCalls, onItemArgs,
              stopItem, returnCalls, nextRaised, returnRaised, itResult>>

evVars == <<evPc, evTimeout, evHasCleanup, evOp, evListener, isSettled, evWinner,
            removeCalls, evCleanupCalls, evCleanupRaised, emitted, evPayload, evFirst,
            others, attached, secondPc, evResult>>

cbVars == <<cbPc, cbTimeout, cbDeferred, cbCleanup, cbTimer, cbCleanupCalls, cbCalls,
            cbFirst, cbEscaped, cbResult>>

tcVars == <<tcPc, tcLog>>

ppVars == <<ppPc, ppSteps, ppInitial, ppCalls, ppReturns, ppResult>>

vars == <<timerVars, concVars, iterVars, evVars, cbVars, tcVars, ppVars>>

\* ---------------------------------------------------------------- Results
\* null. A JavaScript value v is held as <<v>>, so that no value equals null.
Null == <<>>

\* createSuccess with the payload dropped.
createSuccessEmpty(data) == [data |-> Null, error |-> Null, isError |-> FALSE]

createSuccess(data) == [data |-> <<data>>, error |-> Null, isError |-> FALSE]

\* createFailure leaving isError false.
createFailureUnflagged(error) == [data |-> Null, error |-> error, isError |-> FALSE]

createFailure(error) == [data |-> Null, error |-> error, isError |-> TRUE]

\* The placeholder of a Result not produced yet (no Result has this shape).
NoResult == [data |-> Null, error |-> Null, isError |-> FALSE]

\* new Error(`${message} after ${timeout}ms`)
TimeoutError(message, ms) == <<"Error", message, " after ", ms, "ms">>

\* The exception operation j rejects with, and the value it fulfils with.
OpError(j) == <<"Error", "operation failed", j>>

OpValue(j) == j

\* ------------------------------------------------------------ thrown values
\* A value that is thrown, rejected with or emitted is an exception instance,
\* <<"Error", message..., identity>>, or a value that is no exception,
\* <<kind, text>>: a string, null, undefined, a value JSON.stringify
\* serializes to text ("json"), one it returns undefined for ("function"), one
\* it raises on but String() converts to text ("circular"), and one on which
\* both raise ("hostile": toJSON and toString throw, or a cyclic object with
\* no prototype).
NonErrorValues ==
    { <<"string", "boom">>, <<"null", "null">>, <<"undefined", "undefined">>,
      <<"json", "{\"custom\":\"error\"}">>, <<"function", "undefined">>,
      <<"circular", "[object Object]">>, <<"hostile", "">> }

\* No value: nothing was thrown, rejected with or emitted yet.
NoPayload == <<"none", "">>

\* error instanceof Error
IsError(v) == v[1] = "Error"

\* The identity of an exception object built by the library or the runtime
\* itself (the exceptions of the callers carry identities from 0 upwards).
NewErrorId == -1

\* How an evaluation completes: normally with a value, or by raising one.
Normal(v) == [raised |-> FALSE, value |-> v]

Raise(e) == [raised |-> TRUE, value |-> e]

\* The TypeError of a failed conversion to a primitive.
ConversionError == <<"Error", "Cannot convert object to primitive value", NewErrorId>>

\* JSON.stringify(error), interpolated into the message.
JSONstringify(v) ==
    IF v[1] \in {"circular", "hostile"}
    THEN Raise(<<"Error", "Converting circular structure to JSON", NewErrorId>>)
    ELSE Normal(v[2])

\* String(error)
StringOf(v) == IF v[1] = "hostile" THEN Raise(ConversionError) ELSE Normal(v[2])

formatErrorValue(v) ==
    IF v[1] = "null" THEN Normal("null")
    ELSE IF v[1] = "undefined" THEN Normal("undefined")
    ELSE IF JSONstringify(v).raised THEN StringOf(v)
    ELSE JSONstringify(v)

toError(v) ==
    IF IsError(v) THEN Normal(v)
    ELSE IF v[1] = "string" THEN Normal(<<"Error", v[2], NewErrorId>>)
    ELSE IF formatErrorValue(v).raised THEN formatErrorValue(v)
    ELSE Normal(<<"Error", "Non-error value thrown: ", formatErrorValue(v).value, NewErrorId>>)

\* handleError wrapping every value anew, exceptions included.
handleErrorWraps(v) ==
    IF IsError(v) THEN Normal(<<"Error", "Non-error value thrown: ", "{}", NewErrorId>>)
    ELSE toError(v)

handleError(v) == IF IsError(v) THEN Normal(v) ELSE toError(v)

\* safeResolve(value): a fulfilled promise passes through; a rejected one
\* rejects with handleError of its reason, or with what handleError raised.
safeResolve(c) == IF c.raised THEN Raise(handleError(c.value).value) ELSE c

\* handlePromise(promise): the Result the returned promise fulfils with; it
\* rejects only if handleError raises inside the catch block.
handlePromise(c) ==
    IF ~c.raised THEN Normal(createSuccess(c.value))
    ELSE IF handleError(c.value).raised THEN Raise(handleError(c.value).value)
    ELSE Normal(createFailure(handleError(c.value).value))

\* tryCatch(fn) when fn() completes with c, returning a value that is no
\* Promise or throwing: what the call itself completes with. It raises when
\* handleError raises inside the catch block.
tryCatchSync(c) ==
    IF ~c.raised THEN Normal(createSuccess(c.value))
    ELSE IF handleError(c.value).raised THEN Raise(handleError(c.value).value)
    ELSE Normal(createFailure(handleError(c.value).value))

\* tryCatch(fn) when fn() returned a Promise that settles as c: what the
\* promise tryCatch returned settles as.
tryCatchAsync(c) == handlePromise(safeResolve(c))

\* ------------------------------------------------------------------ timers
\* createTimeoutPromise: setTimeout, then Promise.prototype.cancel is
\* overwritten with a closure over this timer.
createTimeoutPromise(ts, tid) == [ts EXCEPT ![tid] = "pending"]

clearTimeout(ts, tid) ==
    IF tid # NoTimer /\ ts[tid] = "pending" THEN [ts EXCEPT ![tid] = "cleared"] ELSE ts

\* raceWithTimeout's finally: (timeoutPromise as any).cancel?.() finds the
\* closure on Promise.prototype, whichever call installed it last.
cancel(ts, hook) == clearTimeout(ts, hook)

\* --------------------------------------------------------------- concurrent
Min(a, b) == IF a < b THEN a ELSE b

Max(a, b) == IF a > b THEN a ELSE b

\* Array.prototype.slice's index clamping (negative counts from the end).
sliceIndex(len, k) == IF k < 0 THEN Max(len + k, 0) ELSE Min(k, len)

\* A chunk that reaches one operation too far.
sliceWide(s, start, end) ==
    LET from == sliceIndex(Len(s), start)
        to   == sliceIndex(Len(s), end + 1)
    IN  IF from >= to THEN <<>> ELSE SubSeq(s, from + 1, to)

slice(s, start, end) ==
    LET from == sliceIndex(Len(s), start)
        to   == sliceIndex(Len(s), end)
    IN  IF from >= to THEN <<>> ELSE SubSeq(s, from + 1, to)

operations == [j \in 1..nOps |-> j]

Range(s) == {s[j] : j \in 1..Len(s)}

\* The TypeError of calling op when it is not a function (j tells the
\* elements apart).
NotFunction(j) == <<"Error", "op is not a function", j>>

\* The operations of a chunk for which raceWithTimeout is reached: op() did
\* not throw.
Raced(ops, kinds) == {j \in Range(ops) : kinds[j] # "notfn"}

\* operations.map(executeOperation): each op() is invoked in list order and,
\* with a truthy timeout, raceWithTimeout creates its deadline timer; the
\* hook is left on the timer created last.
LaunchHook(hook, ops, t, kinds) ==
    IF t = 0 \/ Raced(ops, kinds) = {} THEN hook
    ELSE CHOOSE j \in Raced(ops, kinds) : \A m \in Raced(ops, kinds) : m <= j

\* The timers after the launch and the promise reactions that follow it: the
\* race of a plain value is won at once and its finally runs cancel.
LaunchTimers(ts, ops, t, kinds) ==
    IF t = 0 THEN ts
    ELSE LET created == [tid \in TimerIds |->
                            IF tid \in Raced(ops, kinds) THEN "pending" ELSE ts[tid]]
         IN  IF \E j \in Range(ops) : kinds[j] = "plain"
             THEN cancel(created, LaunchHook(NoTimer, ops, t, kinds))
             ELSE created

LaunchOps(st, ops, kinds) ==
    [j \in OpIds |->
        IF j \notin Range(ops) THEN st[j]
        ELSE IF kinds[j] = "async" THEN "running"
        ELSE IF kinds[j] = "plain" THEN "fulfilled"
        ELSE "threw"]

\* The launch with the TypeError of a non-function escaping: no Result for
\* that element.
LaunchResultsPlainOnly(res, ops, kinds) ==
    [j \in OpIds |->
        IF j \in Range(ops) /\ kinds[j] = "plain"
        THEN tryCatchAsync(Normal(OpValue(j))).value
        ELSE res[j]]

\* The Results that are there once the launch's promise reactions have run:
\* of the operations that returned a plain value and of those that threw.
LaunchResults(res, ops, kinds) ==
    [j \in OpIds |->
        IF j \notin Range(ops) \/ kinds[j] = "async" THEN res[j]
        ELSE IF kinds[j] = "plain" THEN tryCatchAsync(Normal(OpValue(j))).value
        ELSE tryCatchAsync(Raise(NotFunction(j))).value]

\* A Promise.all that resolves with the first Result to arrive.
PromiseAnySettled(ops, res) == \E j \in Range(ops) : res[j] # NoResult

\* Promise.all resolves once every promise has: each operation of the chunk
\* has produced its Result.
PromiseAllSettled(ops, res) == \A j \in Range(ops) : res[j] # NoResult

\* The Results of the promises in reverse order.
PromiseAllReversed(ops, res) == [j \in 1..Len(ops) |-> res[ops[Len(ops) + 1 - j]]]

\* Promise.all: the Results in the order of the promises, not of settlement.
PromiseAll(ops, res) == [j \in 1..Len(ops) |-> res[ops[j]]]

\* A test for failures that finds none.
someNever(rs) == FALSE

some(rs) == \E j \in 1..Len(rs) : rs[j].isError

\* The last failing Result instead of the first.
findLast(rs) ==
    rs[CHOOSE j \in 1..Len(rs) : rs[j].isError /\ \A m \in (j + 1)..Len(rs) : ~rs[m].isError]

find(rs) == rs[CHOOSE j \in 1..Len(rs) : rs[j].isError /\ \A m \in 1..(j - 1) : ~rs[m].isError]

\* The chunk's Results put in front of the earlier ones.
pushFront(rs, more) == more \o rs

push(rs, more) == rs \o more

ConcurrentCall(n, k, t, s, kinds) ==
    /\ cPc = "idle"
    /\ nOps' = n /\ maxConcurrent' = k /\ timeout' = t /\ stopOnError' = s
    /\ opKind' = kinds
    /\ LET all   == [j \in 1..n |-> j]
           unb   == k = Infinity \/ n <= k
           first == IF unb THEN all ELSE slice(all, 0, k)
       IN  /\ bounded' = ~unb
           /\ chunk' = first
           /\ opState' = LaunchOps(opState, first, kinds)
           /\ opResult' = LaunchResults(opResult, first, kinds)
           /\ timers' = LaunchTimers(timers, first, t, kinds)
           /\ cancelHook' = LaunchHook(cancelHook, first, t, kinds)
    /\ i' = 0
    /\ cPc' = "awaitAll"
    /\ UNCHANGED <<results, returned>>
    /\ UNCHANGED <<iterVars, evVars, cbVars, tcVars, ppVars>>

\* The operation's own promise settles. While its race is undecided the
\* Result is the operation's; with a timeout the race's finally runs cancel.
OpSettle(j, ok) ==
    /\ opState[j] = "running"
    /\ opState' = [opState EXCEPT ![j] = IF ok THEN "fulfilled" ELSE "rejected"]
    /\ IF opResult[j] = NoResult
       THEN /\ opResult' = [opResult EXCEPT ![j] =
                   IF ok THEN createSuccess(OpValue(j)) ELSE createFailure(OpError(j))]
            /\ timers' = IF timeout # 0 THEN cancel(timers, cancelHook) ELSE timers
       ELSE UNCHANGED <<opResult, timers>>
    /\ UNCHANGED <<cancelHook, cPc, nOps, maxConcurrent, timeout, stopOnError, bounded,
                   i, chunk, opKind, results, returned>>
    /\ UNCHANGED <<iterVars, evVars, cbVars, tcVars, ppVars>>

OpFulfil(j) == OpSettle(j, TRUE)

OpReject(j) == OpSettle(j, FALSE)

\* Timers of one duration fire in the order they were created.
FirstPending(tid) == timers[tid] = "pending" /\ \A m \in 1..(tid - 1) : timers[m] # "pending"

\* The deadline of operation j fires: the timeout promise rejects; if the race
\* is undecided it rejects, its finally runs cancel, and tryCatch delivers the
\* Failure.
TimerFire(j) ==
    /\ j \in OpIds
    /\ FirstPending(j)
    /\ LET fired == [timers EXCEPT ![j] = "fired"]
       IN  IF opResult[j] = NoResult
           THEN /\ opResult' = [opResult EXCEPT ![j] =
                       createFailure(TimeoutError("Operation timed out", timeout))]
                /\ timers' = cancel(fired, cancelHook)
           ELSE /\ timers' = fired
                /\ UNCHANGED opResult
    /\ UNCHANGED <<cancelHook, cPc, nOps, maxConcurrent, timeout, stopOnError, bounded,
                   i, chunk, opKind, opState, results, returned>>
    /\ UNCHANGED <<iterVars, evVars, cbVars, tcVars, ppVars>>

\* The loop index i is followed down to here: from this index downwards
\* every slice(i, i + maxConcurrent) of an index going down is empty, so the
\* loop behaves the same for all lower values.
IndexFloor == 0 - MaxOps

\* An await that a failure in the chunk ends at once under stopOnError.
awaitChunkOrFailure ==
    \/ PromiseAllSettled(chunk, opResult)
    \/ stopOnError /\ \E j \in Range(chunk) : opResult[j].isError

\* await Promise.all(chunk.map(executeOperation)): concurrent resumes once
\* the promise of every operation launched has resolved.
awaitChunk == PromiseAllSettled(chunk, opResult)

\* The pending Promise.all resolves and concurrent runs to its next await or
\* to its return.
ChunkDone ==
    /\ cPc = "awaitAll"
    /\ awaitChunk
    /\ LET chunkResults == PromiseAll(chunk, opResult)
           stop == stopOnError /\ some(chunkResults)
           acc  == push(results, chunkResults)
           nxt  == slice(operations, i + maxConcurrent, i + maxConcurrent + maxConcurrent)
       IN  IF ~bounded
           THEN /\ returned' = IF stop THEN <<find(chunkResults)>> ELSE chunkResults
                /\ cPc' = "done"
                /\ UNCHANGED <<i, chunk, opState, opResult, timers, cancelHook, results>>
           ELSE /\ results' = acc
                /\ IF stop
                   THEN /\ returned' = <<find(chunkResults)>>
                        /\ cPc' = "done"
                        /\ UNCHANGED <<i, chunk, opState, opResult, timers, cancelHook>>
                   ELSE /\ i' = Max(i + maxConcurrent, IndexFloor)
                        /\ IF i' < nOps
                           THEN /\ chunk' = nxt
                                /\ opState' = LaunchOps(opState, nxt, opKind)
                                /\ opResult' = LaunchResults(opResult, nxt, opKind)
                                /\ timers' = LaunchTimers(timers, nxt, timeout, opKind)
                                /\ cancelHook' = LaunchHook(cancelHook, nxt, timeout, opKind)
                                /\ UNCHANGED <<cPc, returned>>
                           ELSE /\ returned' = acc
                                /\ cPc' = "done"
                                /\ UNCHANGED <<chunk, opState, opResult, timers, cancelHook>>
    /\ UNCHANGED <<nOps, maxConcurrent, timeout, stopOnError, bounded, opKind>>
    /\ UNCHANGED <<iterVars, evVars, cbVars, tcVars, ppVars>>

\* What the n elements of operations may be (the kinds beyond n play no part).
OpKinds(n) ==
    {kinds \in [OpIds -> {"async", "plain", "notfn"}] : \A j \in OpIds : j > n => kinds[j] = "async"}

MaxConcurrentValues == (1..MaxOps) \cup {Infinity}

\* Values of maxConcurrent that are no count of operations: zero and a
\* negative number.
DegenerateLimits == {0 - 1, 0}

TimeoutValues == {0, TimeoutMs}

InitTimers ==
    /\ timers = [tid \in TimerIds |-> "unset"]
    /\ cancelHook = NoTimer

InitConcurrent ==
    /\ cPc = "idle"
    /\ nOps = 0 /\ maxConcurrent = Infinity /\ timeout = 0 /\ stopOnError = FALSE
    /\ bounded = FALSE /\ i = 0 /\ chunk = <<>>
    /\ opKind = [j \in OpIds |-> "async"]
    /\ opState = [j \in OpIds |-> "notrun"]
    /\ opResult = [j \in OpIds |-> NoResult]
    /\ results = <<>> /\ returned = <<>>

\* ------------------------------------------------------------- withIterator
MaxProduced == 3

NextError == <<"Error", "next failed", 0>>

OnItemError == <<"Error", "onItem failed", 0>>

\* The exception return() raises or rejects with.
ReturnError == <<"Error", "return failed", 0>>

\* cleanup without its try/catch: what return() raises replaces the
\* completion under way.
cleanupRethrows(completion, raised) ==
    IF raised THEN Raise(ReturnError) ELSE completion

\* try { await iterator.return?.() } catch { }: cleanup() completes normally
\* and the completion under way (the error being rethrown, the outcome the
\* finally was entered with) stands.
cleanupCatch(completion, raised) == completion

\* cleanup(): iterator.return?.() is called when the hook exists; what it
\* raises is swallowed.
cleanupNever(calls) == calls

cleanup(calls) == IF hasReturn THEN calls + 1 ELSE calls

\* maxItems && values.length >= maxItems
maxItemsReached(vals) == maxItemsSet /\ maxItems # 0 /\ Len(vals) >= maxItems

\* The drain loop's promise settles. If the wrapped function still awaits it
\* (directly or through raceWithTimeout, whose finally runs cancel), the
\* function resumes and its finally calls cleanup().
DrainSettles(pc, err) ==
    /\ drainPc' = pc
    /\ drainError' = err
    /\ IF outerPc = "awaitDrain"
       THEN /\ outcome' = IF pc = "fulfilled" THEN "values" ELSE "error"
            /\ timers' = IF itTimeout # 0 THEN cancel(timers, cancelHook) ELSE timers
            /\ returnCalls' = cleanup(returnCalls)
            /\ outerPc' = "awaitCleanup"
       ELSE UNCHANGED <<outcome, timers, returnCalls, outerPc>>

\* The loop goes round: next() is called again.
DrainLoops ==
    /\ drainPc' = "awaitNext"
    /\ nextCalls' = nextCalls + 1
    /\ UNCHANGED <<drainError, outcome, timers, returnCalls, outerPc>>

\* values.push(next.value), then the maxItems test.
DrainAppends(item) ==
    /\ values' = Append(values, item)
    /\ IF maxItemsReached(values')
       THEN DrainSettles("fulfilled", Null) /\ UNCHANGED nextCalls
       ELSE DrainLoops

IteratorCall(t, ms, m, oi, hr) ==
    /\ outerPc = "idle"
    /\ ms \/ m = 0          \* an unset maxItems has no value
    /\ itTimeout' = t /\ maxItemsSet' = ms /\ maxItems' = m
    /\ hasOnItem' = oi /\ hasReturn' = hr
    /\ drainPc' = "awaitNext"
    /\ nextCalls' = 1
    /\ timers' = IF t # 0 THEN createTimeoutPromise(timers, IterTimer) ELSE timers
    /\ cancelHook' = IF t # 0 THEN IterTimer ELSE cancelHook
    /\ outerPc' = "awaitDrain"
    /\ UNCHANGED <<drainError, outcome, values, produced, onItemCalls, returnCalls,
                   nextRaised, returnRaised, itResult>>
    /\ UNCHANGED <<onItemArgs, stopItem>>
    /\ UNCHANGED <<concVars, evVars, cbVars, tcVars, ppVars>>

\* next() resolves with {done: false, value}.
NextYield ==
    /\ drainPc = "awaitNext"
    /\ produced < MaxProduced
    /\ produced' = produced + 1
    /\ IF hasOnItem
       THEN /\ drainPc' = "awaitOnItem"
            /\ onItemCalls' = onItemCalls + 1
            /\ onItemArgs' = Append(onItemArgs, produced')
            /\ UNCHANGED <<values, nextCalls, drainError, outcome, timers, returnCalls, outerPc>>
       ELSE /\ DrainAppends(produced')
            /\ UNCHANGED <<onItemCalls, onItemArgs>>
    /\ UNCHANGED <<itTimeout, maxItemsSet, maxItems, hasOnItem, hasReturn, nextRaised,
                   returnRaised, itResult, cancelHook>>
    /\ UNCHANGED stopItem
    /\ UNCHANGED <<concVars, evVars, cbVars, tcVars, ppVars>>

\* next() resolves with {done: true}.
NextDone ==
    /\ drainPc = "awaitNext"
    /\ DrainSettles("fulfilled", Null)
    /\ UNCHANGED <<itTimeout, maxItemsSet, maxItems, hasOnItem, hasReturn, values, produced,
                   nextCalls, onItemCalls, nextRaised, returnRaised, itResult, cancelHook>>
    /\ UNCHANGED <<onItemArgs, stopItem>>
    /\ UNCHANGED <<concVars, evVars, cbVars, tcVars, ppVars>>

\* next() raises: the catch block calls cleanup() and awaits it.
NextThrow ==
    /\ drainPc = "awaitNext"
    /\ nextRaised' = TRUE
    /\ returnCalls' = cleanup(returnCalls)
    /\ drainPc' = "awaitInnerCleanup"
    /\ UNCHANGED <<itTimeout, maxItemsSet, maxItems, hasOnItem, hasReturn, drainError, outerPc,
                   outcome, values, produced, nextCalls, onItemCalls, returnRaised, itResult>>
    /\ UNCHANGED <<onItemArgs, stopItem>>
    /\ UNCHANGED <<timerVars, concVars, evVars, cbVars, tcVars, ppVars>>

\* The catch block's cleanup() is over (return() resolved or raised): the
\* loop rethrows the error of next().
InnerCleanupDone(raised) ==
    /\ drainPc = "awaitInnerCleanup"
    /\ raised => hasReturn
    /\ returnRaised' = (returnRaised \/ raised)
    /\ DrainSettles("rejected", cleanupCatch(Raise(NextError), raised).value)
    /\ UNCHANGED <<itTimeout, maxItemsSet, maxItems, hasOnItem, hasReturn, values, produced,
                   nextCalls, onItemCalls, nextRaised, itResult, cancelHook>>
    /\ UNCHANGED <<onItemArgs, stopItem>>
    /\ UNCHANGED <<concVars, evVars, cbVars, tcVars, ppVars>>

\* onItem returns (or resolves to) true.
OnItemTrue ==
    /\ drainPc = "awaitOnItem"
    /\ DrainAppends(produced)
    /\ UNCHANGED <<itTimeout, maxItemsSet, maxItems, hasOnItem, hasReturn, produced,
                   onItemCalls, nextRaised, returnRaised, itResult, cancelHook>>
    /\ UNCHANGED <<onItemArgs, stopItem>>
    /\ UNCHANGED <<concVars, evVars, cbVars, tcVars, ppVars>>

\* The break on false moved after the push: the item is appended before the loop
\* breaks.
OnItemFalseAppends ==
    /\ drainPc = "awaitOnItem"
    /\ stopItem' = produced
    /\ values' = Append(values, produced)
    /\ DrainSettles("fulfilled", Null)
    /\ UNCHANGED <<itTimeout, maxItemsSet, maxItems, hasOnItem, hasReturn, produced,
                   nextCalls, onItemCalls, nextRaised, returnRaised, itResult, cancelHook>>
    /\ UNCHANGED onItemArgs
    /\ UNCHANGED <<concVars, evVars, cbVars, tcVars, ppVars>>

\* onItem returns false: the loop breaks without appending.
OnItemFalse ==
    /\ drainPc = "awaitOnItem"
    /\ stopItem' = produced
    /\ DrainSettles("fulfilled", Null)
    /\ UNCHANGED <<itTimeout, maxItemsSet, maxItems, hasOnItem, hasReturn, values, produced,
                   nextCalls, onItemCalls, nextRaised, returnRaised, itResult, cancelHook>>
    /\ UNCHANGED onItemArgs
    /\ UNCHANGED <<concVars, evVars, cbVars, tcVars, ppVars>>

\* onItem raises: nothing in the loop catches it.
OnItemThrow ==
    /\ drainPc = "awaitOnItem"
    /\ DrainSettles("rejected", OnItemError)
    /\ UNCHANGED <<itTimeout, maxItemsSet, maxItems, hasOnItem, hasReturn, values, produced,
                   nextCalls, onItemCalls, nextRaised, returnRaised, itResult, cancelHook>>
    /\ UNCHANGED <<onItemArgs, stopItem>>
    /\ UNCHANGED <<concVars, evVars, cbVars, tcVars, ppVars>>

\* The deadline fires. If the race is undecided it rejects, the finally of
\* raceWithTimeout runs cancel, and the function's finally calls cleanup();
\* the drain loop is left running.
IteratorTimerFire ==
    /\ timers[IterTimer] = "pending"
    /\ LET fired == [timers EXCEPT ![IterTimer] = "fired"]
       IN  IF outerPc = "awaitDrain"
           THEN /\ outcome' = "timeout"
                /\ timers' = cancel(fired, cancelHook)
                /\ returnCalls' = cleanup(returnCalls)
                /\ outerPc' = "awaitCleanup"
           ELSE /\ timers' = fired
                /\ UNCHANGED <<outcome, returnCalls, outerPc>>
    /\ UNCHANGED <<itTimeout, maxItemsSet, maxItems, hasOnItem, hasReturn, drainPc, drainError,
                   values, produced, nextCalls, onItemCalls, nextRaised, returnRaised,
                   itResult, cancelHook>>
    /\ UNCHANGED <<onItemArgs, stopItem>>
    /\ UNCHANGED <<concVars, evVars, cbVars, tcVars, ppVars>>

\* How the wrapped async function is about to complete when its finally is
\* entered: with the values, or raising what the drain or the deadline
\* rejected with.
IteratorOutcome ==
    IF outcome = "values" THEN Normal(values)
    ELSE IF outcome = "error" THEN Raise(drainError)
    ELSE Raise(TimeoutError("Iterator timed out", itTimeout))

\* What tryCatch makes of the wrapped function's promise.
IteratorResult(completion) == handlePromise(safeResolve(completion)).value

\* The finally's cleanup() is over (return() resolved or raised): the Result
\* is delivered.
OuterCleanupDone(raised) ==
    /\ outerPc = "awaitCleanup"
    /\ raised => hasReturn
    /\ returnRaised' = (returnRaised \/ raised)
    /\ itResult' = IteratorResult(cleanupCatch(IteratorOutcome, raised))
    /\ outerPc' = "done"
    /\ UNCHANGED <<itTimeout, maxItemsSet, maxItems, hasOnItem, hasReturn, drainPc, drainError,
                   outcome, values, produced, nextCalls, onItemCalls, returnCalls, nextRaised>>
    /\ UNCHANGED <<onItemArgs, stopItem>>
    /\ UNCHANGED <<timerVars, concVars, evVars, cbVars, tcVars, ppVars>>

InitIterator ==
    /\ itTimeout = 0 /\ maxItemsSet = FALSE /\ maxItems = 0
    /\ hasOnItem = FALSE /\ hasReturn = FALSE
    /\ drainPc = "idle" /\ drainError = Null /\ outerPc = "idle" /\ outcome = "none"
    /\ values = <<>> /\ produced = 0
    /\ nextCalls = 0 /\ onItemCalls = 0 /\ returnCalls = 0
    /\ nextRaised = FALSE /\ returnRaised = FALSE
    /\ itResult = NoResult
    /\ onItemArgs = <<>> /\ stopItem = 0

NextIterator ==
    \/ \E t \in TimeoutValues, ms \in BOOLEAN, m \in 0..MaxProduced, oi \in BOOLEAN,
          hr \in BOOLEAN :
           IteratorCall(t, ms, m, oi, hr)
    \/ NextYield
    \/ NextDone
    \/ NextThrow
    \/ \E raised \in BOOLEAN : InnerCleanupDone(raised)
    \/ OnItemTrue
    \/ OnItemFalse
    \/ OnItemThrow
    \/ IteratorTimerFire
    \/ \E raised \in BOOLEAN : OuterCleanupDone(raised)

\* --------------------------------------------------------------- withEvents
MaxEmits == 2

EvValue == 7

EvOpError == <<"Error", "operation rejected", 0>>

EvSyncError == <<"Error", "operation threw", 0>>

\* The payload of the nth error event.
EventError(n) == <<"Error", "error event", n>>

\* What the source may emit with the error event: an exception instance or
\* any other value (emit with no argument hands the listener undefined).
EventPayloads == {EventError(n) : n \in 1..MaxEmits} \cup NonErrorValues

\* The guard inverted: cleanupFn returns at once on its first call.
cleanupFnSkips(settled) == settled

\* cleanupFn's guard: if (isSettled) return.

cleanupFnRuns(settled) == ~settled

\* cleanupFn, called by the finally: behind its guard it sets isSettled,
\* removes every listener of errorEvent from the source
\* (removeAllListeners) and calls options.cleanup.
\* registered: whether the once-listener is still on the source; hc: whether
\* options.cleanup is given.
EvFinally(registered, hc) ==
    /\ evPc' = "cleaning"
    /\ IF cleanupFnRuns(isSettled)
       THEN /\ isSettled' = TRUE
            /\ evListener' = FALSE
            /\ removeCalls' = removeCalls + 1
            /\ others' = {}
            /\ evCleanupCalls' = IF hc THEN evCleanupCalls + 1 ELSE evCleanupCalls
       ELSE /\ evListener' = registered
            /\ UNCHANGED <<isSettled, removeCalls, evCleanupCalls, others>>

\* What operation() hands back: a promise still pending, one already
\* fulfilled or rejected (a plain value counts as fulfilled), or nothing
\* because it threw.
OperationKinds == {"pending", "fulfilled", "rejected", "threw"}

\* Promise.race([operationPromise, errorPromise, timeoutPromise]) when it is
\* called: the reactions of promises that are already settled are queued in
\* the order of the list, so a settled operationPromise decides the race even
\* if the listener rejected errorPromise earlier, during operation().
raceAtCall(op, emits) ==
    IF op = "fulfilled" THEN "value"
    ELSE IF op = "rejected" THEN "opError"
    ELSE IF emits THEN "event"
    ELSE "none"

\* withEvents runs to its first await: the listener is registered with once,
\* operation() is called (and may emit the error event with payload before it
\* returns), the deadline timer is created. An operation that throws
\* synchronously sends control to the finally at once.
EventsCall(t, hc, op, emits, payload) ==
    /\ evPc = "idle"
    /\ evTimeout' = t /\ evHasCleanup' = hc
    /\ evOp' = op
    /\ emitted' = IF emits THEN emitted + 1 ELSE emitted
    /\ evPayload' = IF emits THEN payload ELSE evPayload
    /\ evFirst' = IF emits THEN "event"
                  ELSE IF op = "fulfilled" THEN "value"
                  ELSE IF op \in {"rejected", "threw"} THEN "opError"
                  ELSE "none"
    /\ secondPc' = IF emits /\ "second" \in others THEN "done" ELSE secondPc
    /\ IF op = "threw"
       THEN /\ evWinner' = "opError"
            /\ EvFinally(~emits, hc)
            /\ UNCHANGED timerVars
       ELSE /\ timers' = IF t # 0 THEN createTimeoutPromise(timers, EvTimer) ELSE timers
            /\ cancelHook' = IF t # 0 THEN EvTimer ELSE cancelHook
            /\ IF raceAtCall(op, emits) = "none"
               THEN /\ evListener' = TRUE
                    /\ evPc' = "racing"
                    /\ UNCHANGED <<isSettled, evWinner, removeCalls, evCleanupCalls, others>>
               ELSE /\ evWinner' = raceAtCall(op, emits)
                    /\ EvFinally(~emits, hc)
    /\ UNCHANGED <<evCleanupRaised, attached, evResult>>
    /\ UNCHANGED <<concVars, iterVars, cbVars, tcVars, ppVars>>

\* The operation's promise settles; if the race is undecided it decides it
\* and the function resumes into its finally.
EventsOpSettle(ok) ==
    /\ evOp = "pending"
    /\ evOp' = IF ok THEN "fulfilled" ELSE "rejected"
    /\ IF evPc = "racing"
       THEN /\ evWinner' = IF ok THEN "value" ELSE "opError"
            /\ evFirst' = IF ok THEN "value" ELSE "opError"
            /\ EvFinally(evListener, evHasCleanup)
       ELSE UNCHANGED <<evPc, evWinner, evFirst, isSettled, evListener, removeCalls,
                        evCleanupCalls, others>>
    /\ UNCHANGED <<evTimeout, evHasCleanup, evCleanupRaised, emitted, evResult>>
    /\ UNCHANGED <<evPayload, attached, secondPc>>
    /\ UNCHANGED <<timerVars, concVars, iterVars, cbVars, tcVars, ppVars>>

EventsOpFulfil == EventsOpSettle(TRUE)

EventsOpReject == EventsOpSettle(FALSE)

\* The source emits the error event. A registered once-listener is removed
\* and rejects the error promise of its call, whose finally then runs; with
\* no listener of a call nothing of that call runs.
EmitError(payload) ==
    /\ evPc # "idle"
    /\ emitted < MaxEmits
    /\ emitted' = emitted + 1
    /\ secondPc' = IF "second" \in others THEN "done" ELSE secondPc
    /\ IF evListener /\ evPc = "racing"
       THEN /\ evWinner' = "event"
            /\ evFirst' = "event"
            /\ evPayload' = payload
            /\ EvFinally(evListener, evHasCleanup)
       ELSE /\ evListener' = FALSE
            /\ others' = IF "second" \in others THEN {} ELSE others
            /\ UNCHANGED <<evPc, evWinner, evFirst, isSettled, removeCalls, evCleanupCalls,
                           evPayload>>
    /\ UNCHANGED <<evTimeout, evHasCleanup, evOp, evCleanupRaised, attached, evResult>>
    /\ UNCHANGED <<timerVars, concVars, iterVars, cbVars, tcVars, ppVars>>

\* The caller attaches a listener of its own to the error event before
\* calling withEvents.
CallerAttaches ==
    /\ evPc = "idle" /\ secondPc = "idle" /\ ~attached
    /\ attached' = TRUE
    /\ others' = others \cup {"caller"}
    /\ UNCHANGED <<evPc, evTimeout, evHasCleanup, evOp, evListener, isSettled, evWinner,
                   removeCalls, evCleanupCalls, evCleanupRaised, emitted, evPayload, evFirst,
                   secondPc, evResult>>
    /\ UNCHANGED <<timerVars, concVars, iterVars, cbVars, tcVars, ppVars>>

\* A second withEvents call on the same source and event name starts: it
\* registers its own once-listener and waits for its operation.
SecondCall ==
    /\ secondPc = "idle"
    /\ secondPc' = "racing"
    /\ others' = others \cup {"second"}
    /\ UNCHANGED <<evPc, evTimeout, evHasCleanup, evOp, evListener, isSettled, evWinner,
                   removeCalls, evCleanupCalls, evCleanupRaised, emitted, evPayload, evFirst,
                   attached, evResult>>
    /\ UNCHANGED <<timerVars, concVars, iterVars, cbVars, tcVars, ppVars>>

\* The operation of the second call settles: its finally runs cleanupFn,
\* whose removeAllListeners(errorEvent) takes every listener of the event off
\* the source.
SecondSettles ==
    /\ secondPc = "racing"
    /\ secondPc' = "done"
    /\ others' = {}
    /\ evListener' = FALSE
    /\ UNCHANGED <<evPc, evTimeout, evHasCleanup, evOp, isSettled, evWinner,
                   removeCalls, evCleanupCalls, evCleanupRaised, emitted, evPayload, evFirst,
                   attached, evResult>>
    /\ UNCHANGED <<timerVars, concVars, iterVars, cbVars, tcVars, ppVars>>

\* The deadline fires (withEvents never clears this timer).
EventsTimerFire ==
    /\ timers[EvTimer] = "pending"
    /\ timers' = [timers EXCEPT ![EvTimer] = "fired"]
    /\ IF evPc = "racing"
       THEN /\ evWinner' = "timeout"
            /\ evFirst' = "timeout"
            /\ EvFinally(evListener, evHasCleanup)
       ELSE UNCHANGED <<evPc, evWinner, evFirst, isSettled, evListener, removeCalls,
                        evCleanupCalls, others>>
    /\ UNCHANGED <<evTimeout, evHasCleanup, evOp, evCleanupRaised, emitted, evResult, cancelHook>>
    /\ UNCHANGED <<evPayload, attached, secondPc>>
    /\ UNCHANGED <<concVars, iterVars, cbVars, tcVars, ppVars>>

\* How the wrapped async function's promise settles: with the value of the
\* operation, or rejected with what won the race.
EventsOutcome ==
    IF evWinner = "value" THEN Normal(EvValue)
    ELSE IF evWinner = "opError"
         THEN Raise(IF evOp = "threw" THEN EvSyncError ELSE EvOpError)
    ELSE IF evWinner = "event" THEN Raise(evPayload)
    ELSE Raise(TimeoutError("Operation timed out", evTimeout))

\* What tryCatch makes of it: handlePromise(safeResolve(promise)).
EventsResult == handlePromise(safeResolve(EventsOutcome)).value

\* The exception the cleanup hook raises or rejects with.
CleanupError == <<"Error", "cleanup failed", 0>>

\* cleanupFn without its try/catch: what cleanup raises replaces the
\* outcome of the race.
cleanupFnRethrows(result, raised) ==
    IF raised THEN createFailure(CleanupError) ELSE result

\* try { await cleanup?.() } catch { }: the finally completes normally and
\* the outcome of the race stands.
cleanupFnCatch(result, raised) == result

\* cleanupFn() called without await: the Result is delivered while the
\* cleanup hook is still running.
EventsCleanupDetached(raised) ==
    /\ evPc = "cleaning"
    /\ evResult = NoResult
    /\ raised => evHasCleanup
    /\ evCleanupRaised' = raised
    /\ evResult' = cleanupFnCatch(EventsResult, raised)
    /\ UNCHANGED <<evPc, evTimeout, evHasCleanup, evOp, evListener, isSettled, evWinner,
                   removeCalls, evCleanupCalls, emitted>>
    /\ UNCHANGED <<evPayload, evFirst, others, attached, secondPc>>
    /\ UNCHANGED <<timerVars, concVars, iterVars, cbVars, tcVars, ppVars>>

\* await cleanup?.() is over (it returned, resolved, threw or rejected; what it
\* raises is swallowed): the finally ends and the Result is delivered.
EventsCleanupDone(raised) ==
    /\ evPc = "cleaning"
    /\ raised => evHasCleanup
    /\ evCleanupRaised' = raised
    /\ evResult' = cleanupFnCatch(EventsResult, raised)
    /\ evPc' = "done"
    /\ UNCHANGED <<evTimeout, evHasCleanup, evOp, evListener, isSettled, evWinner, removeCalls,
                   evCleanupCalls, emitted>>
    /\ UNCHANGED <<evPayload, evFirst, others, attached, secondPc>>
    /\ UNCHANGED <<timerVars, concVars, iterVars, cbVars, tcVars, ppVars>>

InitEvents ==
    /\ evPc = "idle" /\ evTimeout = 0 /\ evHasCleanup = FALSE /\ evOp = "none"
    /\ evListener = FALSE /\ isSettled = FALSE /\ evWinner = "none"
    /\ removeCalls = 0 /\ evCleanupCalls = 0 /\ evCleanupRaised = FALSE /\ emitted = 0
    /\ evPayload = NoPayload /\ evFirst = "none" /\ evResult = NoResult
    /\ others = {} /\ attached = FALSE /\ secondPc = "idle"

NextEvents ==
    \/ \E t \in TimeoutValues, hc \in BOOLEAN, op \in OperationKinds, emits \in BOOLEAN :
          \E payload \in EventPayloads : EventsCall(t, hc, op, emits, payload)
    \/ EventsOpFulfil
    \/ EventsOpReject
    \/ \E payload \in EventPayloads : EmitError(payload)
    \/ EventsTimerFire
    \/ \E raised \in BOOLEAN : EventsCleanupDone(raised)

\* ------------------------------------------------------------ withCallbacks
MaxHandlerCalls == 3

\* The value of the nth handler call, when it is resolve, and its error, when
\* it is reject.
CbValue(n) == n

CbError(n) == <<"Error", "rejected by callback", n>>

SetupError == <<"Error", "setup threw", 0>>

\* resolve and reject of the promise: the first settlement stays.
settle(deferred, result) == IF deferred = NoResult THEN result ELSE deferred

\* The first event to occur.
noteFirst(first, result) == IF first = NoResult THEN result ELSE first

HandlerResult(ok, n) == IF ok THEN createSuccess(CbValue(n)) ELSE createFailure(CbError(n))

\* tryCatch calls the wrapped function, whose promise executor calls setup.
CallbacksCall(t) ==
    /\ cbPc = "idle"
    /\ cbTimeout' = t
    /\ cbPc' = "setup"
    /\ UNCHANGED <<cbDeferred, cbCleanup, cbTimer, cbCleanupCalls, cbCalls, cbFirst, cbEscaped,
                   cbResult>>
    /\ UNCHANGED <<timerVars, concVars, iterVars, evVars, tcVars, ppVars>>

\* setup calls resolve or reject before it returns: cleanup is still the
\* initial no-op.
SetupHandler(ok) ==
    /\ cbPc = "setup"
    /\ cbCalls < MaxHandlerCalls
    /\ cbCalls' = cbCalls + 1
    /\ cbDeferred' = settle(cbDeferred, HandlerResult(ok, cbCalls'))
    /\ cbFirst' = noteFirst(cbFirst, HandlerResult(ok, cbCalls'))
    /\ UNCHANGED <<cbPc, cbTimeout, cbCleanup, cbTimer, cbCleanupCalls, cbEscaped, cbResult>>
    /\ UNCHANGED <<timerVars, concVars, iterVars, evVars, tcVars, ppVars>>

\* setup returns, a cleanup closure or nothing; with a truthy timeout the
\* deadline timer is installed and folded into cleanup.
SetupReturn(withCleanup) ==
    /\ cbPc = "setup"
    /\ cbCleanup' = IF withCleanup THEN "user" ELSE "noop"
    /\ cbTimer' = IF cbTimeout # 0 THEN "pending" ELSE cbTimer
    /\ cbPc' = "armed"
    /\ UNCHANGED <<cbTimeout, cbDeferred, cbCleanupCalls, cbCalls, cbFirst, cbEscaped, cbResult>>
    /\ UNCHANGED <<timerVars, concVars, iterVars, evVars, tcVars, ppVars>>

\* setup throws: the executor ends there and the promise rejects with what
\* was thrown; no timer is installed and cleanup stays the no-op.
SetupThrow ==
    /\ cbPc = "setup"
    /\ cbDeferred' = settle(cbDeferred, createFailure(SetupError))
    /\ cbFirst' = noteFirst(cbFirst, createFailure(SetupError))
    /\ cbPc' = "armed"
    /\ UNCHANGED <<cbTimeout, cbCleanup, cbTimer, cbCleanupCalls, cbCalls, cbEscaped, cbResult>>
    /\ UNCHANGED <<timerVars, concVars, iterVars, evVars, tcVars, ppVars>>

\* wrappedResolve / wrappedReject called after setup: cleanup() (which clears
\* the timer, then calls the closure setup returned), then resolve or reject;
\* a closure that raises ends the handler before it settles the promise.
Handler(ok, raises) ==
    /\ cbPc = "armed"
    /\ cbCalls < MaxHandlerCalls
    /\ raises => cbCleanup = "user"
    /\ cbCalls' = cbCalls + 1
    /\ cbTimer' = IF cbTimer = "pending" THEN "cleared" ELSE cbTimer
    /\ cbCleanupCalls' = IF cbCleanup = "user" THEN cbCleanupCalls + 1 ELSE cbCleanupCalls
    /\ cbDeferred' = IF raises THEN cbDeferred
                     ELSE settle(cbDeferred, HandlerResult(ok, cbCalls'))
    /\ cbFirst' = noteFirst(cbFirst, HandlerResult(ok, cbCalls'))
    /\ cbEscaped' = (cbEscaped \/ raises)
    /\ UNCHANGED <<cbPc, cbTimeout, cbCleanup, cbResult>>
    /\ UNCHANGED <<timerVars, concVars, iterVars, evVars, tcVars, ppVars>>

\* The deadline fires: cleanup(), then reject with the timeout error.
CallbacksTimerFire(raises) ==
    /\ cbTimer = "pending"
    /\ raises => cbCleanup = "user"
    /\ cbTimer' = "fired"
    /\ cbCleanupCalls' = IF cbCleanup = "user" THEN cbCleanupCalls + 1 ELSE cbCleanupCalls
    /\ LET failure == createFailure(TimeoutError("Operation timed out", cbTimeout))
       IN  /\ cbDeferred' = IF raises THEN cbDeferred ELSE settle(cbDeferred, failure)
           /\ cbFirst' = noteFirst(cbFirst, failure)
    /\ cbEscaped' = (cbEscaped \/ raises)
    /\ UNCHANGED <<cbPc, cbTimeout, cbCleanup, cbCalls, cbResult>>
    /\ UNCHANGED <<timerVars, concVars, iterVars, evVars, tcVars, ppVars>>

\* The settled promise reaches tryCatch, which delivers the Result.
CallbacksDeliver ==
    /\ cbPc = "armed"
    /\ cbDeferred # NoResult
    /\ cbResult = NoResult
    /\ cbResult' = cbDeferred
    /\ UNCHANGED <<cbPc, cbTimeout, cbDeferred, cbCleanup, cbTimer, cbCleanupCalls, cbCalls,
                   cbFirst, cbEscaped>>
    /\ UNCHANGED <<timerVars, concVars, iterVars, evVars, tcVars, ppVars>>

InitCallbacks ==
    /\ cbPc = "idle" /\ cbTimeout = 0 /\ cbDeferred = NoResult /\ cbCleanup = "noop"
    /\ cbTimer = "unset" /\ cbCleanupCalls = 0 /\ cbCalls = 0
    /\ cbFirst = NoResult /\ cbEscaped = FALSE /\ cbResult = NoResult

NextCallbacks ==
    \/ \E t \in TimeoutValues : CallbacksCall(t)
    \/ \E ok \in BOOLEAN : SetupHandler(ok)
    \/ \E withCleanup \in BOOLEAN : SetupReturn(withCleanup)
    \/ SetupThrow
    \/ \E ok \in BOOLEAN, raises \in BOOLEAN : Handler(ok, raises)
    \/ \E raises \in BOOLEAN : CallbacksTimerFire(raises)
    \/ CallbacksDeliver

\* ---------------------------------------------------------------- tryCatch
MaxTryCalls == 2

\* The values fn returns or its promise fulfils with.
PlainValues == {1, 2}

\* The exception instance fn throws or its promise rejects with.
FnError == <<"Error", "fn failed", 0>>

\* What fn may throw or its promise reject with.
ThrownValues == {FnError} \cup NonErrorValues

\* The record of a call: what fn did ("returns" | "throws" | "fulfils" |
\* "rejects") with which value, whether the caller got a promise, whether an
\* exception reached the caller, and the Result or the exception it got.
LogEntry(kind, v, e, susp, c) ==
    [fn |-> kind, value |-> v, thrown |-> e, suspended |-> susp, raised |-> c.raised,
     result |-> IF c.raised THEN NoResult ELSE c.value,
     escaped |-> IF c.raised THEN c.value ELSE NoPayload]

\* fn returns the plain value v.
TryCatchReturns(v) ==
    /\ tcPc = "idle" /\ Len(tcLog) < MaxTryCalls
    /\ tcLog' = Append(tcLog, LogEntry("returns", v, NoPayload, FALSE, tryCatchSync(Normal(v))))
    /\ UNCHANGED tcPc
    /\ UNCHANGED <<timerVars, concVars, iterVars, evVars, cbVars, ppVars>>

\* fn throws e.
TryCatchThrows(e) ==
    /\ tcPc = "idle" /\ Len(tcLog) < MaxTryCalls
    /\ tcLog' = Append(tcLog, LogEntry("throws", 0, e, FALSE, tryCatchSync(Raise(e))))
    /\ UNCHANGED tcPc
    /\ UNCHANGED <<timerVars, concVars, iterVars, evVars, cbVars, ppVars>>

\* fn returns a Promise: tryCatch returns handlePromise(safeResolve(result)).
TryCatchPromise ==
    /\ tcPc = "idle" /\ Len(tcLog) < MaxTryCalls
    /\ tcPc' = "awaiting"
    /\ UNCHANGED tcLog
    /\ UNCHANGED <<timerVars, concVars, iterVars, evVars, cbVars, ppVars>>

\* The promise fn returned fulfils with v.
PromiseFulfils(v) ==
    /\ tcPc = "awaiting"
    /\ tcLog' = Append(tcLog, LogEntry("fulfils", v, NoPayload, TRUE, tryCatchAsync(Normal(v))))
    /\ tcPc' = "idle"
    /\ UNCHANGED <<timerVars, concVars, iterVars, evVars, cbVars, ppVars>>

\* The promise fn returned rejects with e.
PromiseRejects(e) ==
    /\ tcPc = "awaiting"
    /\ tcLog' = Append(tcLog, LogEntry("rejects", 0, e, TRUE, tryCatchAsync(Raise(e))))
    /\ tcPc' = "idle"
    /\ UNCHANGED <<timerVars, concVars, iterVars, evVars, cbVars, ppVars>>

InitTryCatch == tcPc = "idle" /\ tcLog = <<>>

NextTryCatch ==
    \/ \E v \in PlainValues : TryCatchReturns(v)
    \/ \E e \in ThrownValues : TryCatchThrows(e)
    \/ TryCatchPromise
    \/ \E v \in PlainValues : PromiseFulfils(v)
    \/ \E e \in ThrownValues : PromiseRejects(e)

\* -------------------------------------------------------------------- pipe
MaxSteps == 3

\* The initial values, and the payloads a step may succeed with.
PipeInitials == {5, 6}

StepPayloads == {1, 2, 3}

\* The exception step j fails with.
StepError(j) == <<"Error", "step failed", j>>

\* A pipeline that never stops on a Failure.
shortCircuitNever(r) == FALSE

\* "On any step returning a Failure, stop immediately".
shortCircuit(r) == r.isError

\* Every step fed the initial value.
unwrapInitial(r, init) == <<init>>

\* "otherwise feed the unwrapped success payload into the next step": the
\* data field of the Result (held as <<payload>>, null as <<>>).
unwrap(r, init) == r.data

\* pipe(initial, steps): with no steps the Result wraps initial; otherwise the
\* first step is invoked with initial.
PipeCall(n, init) ==
    /\ ppPc = "idle"
    /\ ppSteps' = n /\ ppInitial' = init
    /\ IF n = 0
       THEN /\ ppResult' = createSuccess(init)
            /\ ppPc' = "done"
            /\ UNCHANGED ppCalls
       ELSE /\ ppCalls' = <<<<1, <<init>>>>>>
            /\ ppPc' = "awaitStep"
            /\ UNCHANGED ppResult
    /\ UNCHANGED ppReturns
    /\ UNCHANGED <<timerVars, concVars, iterVars, evVars, cbVars, tcVars>>

\* The step invoked last returns the Result r (at once or through a promise):
\* a Failure is returned unchanged, the Result of the last step is the final
\* Result, and otherwise the next step is invoked with the payload.
StepReturns(r) ==
    /\ ppPc = "awaitStep"
    /\ ppReturns' = Append(ppReturns, r)
    /\ IF shortCircuit(r) \/ Len(ppCalls) = ppSteps
       THEN /\ ppResult' = r
            /\ ppPc' = "done"
            /\ UNCHANGED ppCalls
       ELSE /\ ppCalls' = Append(ppCalls, <<Len(ppCalls) + 1, unwrap(r, ppInitial)>>)
            /\ UNCHANGED <<ppPc, ppResult>>
    /\ UNCHANGED <<ppSteps, ppInitial>>
    /\ UNCHANGED <<timerVars, concVars, iterVars, evVars, cbVars, tcVars>>

StepSucceeds(v) == StepReturns(createSuccess(v))

StepFails == StepReturns(createFailure(StepError(Len(ppCalls))))

InitPipe ==
    /\ ppPc = "idle" /\ ppSteps = 0 /\ ppInitial = 0
    /\ ppCalls = <<>> /\ ppReturns = <<>> /\ ppResult = NoResult

NextPipe ==
    \/ \E n \in 0..MaxSteps, init \in PipeInitials : PipeCall(n, init)
    \/ \E v \in StepPayloads : StepSucceeds(v)
    \/ StepFails

NextConcurrent ==
    \/ \E n \in 1..MaxOps, k \in MaxConcurrentValues, t \in TimeoutValues, s \in BOOLEAN :
          \E kinds \in OpKinds(n) : ConcurrentCall(n, k, t, s, kinds)
    \/ \E j \in OpIds : OpFulfil(j)
    \/ \E j \in OpIds : OpReject(j)
    \/ \E j \in OpIds : TimerFire(j)
    \/ ChunkDone

InitAll == InitPipe /\ InitTryCatch /\ InitTimers /\ InitConcurrent /\ InitIterator /\ InitEvents /\ InitCallbacks

SpecConcurrent == InitAll /\ [][NextConcurrent]_vars

\* concurrent called with any number as maxConcurrent.
NextConcurrentAnyLimit ==
    \/ \E n \in 1..MaxOps, k \in MaxConcurrentValues \cup DegenerateLimits,
          t \in TimeoutValues, s \in BOOLEAN :
          \E kinds \in OpKinds(n) : ConcurrentCall(n, k, t, s, kinds)
    \/ \E j \in OpIds : OpFulfil(j)
    \/ \E j \in OpIds : OpReject(j)
    \/ \E j \in OpIds : TimerFire(j)
    \/ ChunkDone

SpecConcurrentAnyLimit == InitAll /\ [][NextConcurrentAnyLimit]_vars

\* Every operation that runs settles, every pending timer fires and every
\* ready continuation runs.
FairConcurrentAnyLimit ==
    /\ SpecConcurrentAnyLimit
    /\ WF_vars(ChunkDone)
    /\ \A j \in OpIds : WF_vars(TimerFire(j))
    /\ \A j \in OpIds : WF_vars(OpFulfil(j) \/ OpReject(j))

\* The event loop fires every pending timer and runs every ready continuation;
\* nothing makes an operation settle.
FairConcurrent ==
    SpecConcurrent /\ WF_vars(ChunkDone) /\ \A j \in OpIds : WF_vars(TimerFire(j))

\* ------------------------------------------------------- claims: concurrent
RunningOps == {j \in OpIds : opState[j] = "running"}

\* launched, and executeOperation has not produced its Result yet
InFlightOps == {j \in OpIds : opState[j] # "notrun" /\ opResult[j] = NoResult}

TimeoutFailure == createFailure(TimeoutError("Operation timed out", timeout))

\* C3: with a timeout the call eventually returns even when operations never
\* settle, and an operation still unsettled when its deadline has fired is
\* reported as the Failure 'Operation timed out after <t>ms'.
C3_TimeoutAlwaysReturns ==
    /\ [](cPc = "awaitAll" /\ timeout # 0 => <>(cPc = "done"))
    /\ [](\A j \in OpIds : timers[j] = "fired" /\ opState[j] = "running"
                              => opResult[j] = TimeoutFailure)

\* C4: once the race of a raceWithTimeout call has settled, that call's own
\* deadline timer is no longer pending, also with several calls in flight.
C4_OwnTimerNotPending ==
    \A j \in OpIds : timeout # 0 /\ opResult[j] # NoResult => timers[j] # "pending"

\* C30: deadline timers are not shared between invocations: a step in which
\* the race of one raceWithTimeout call settles, and its finally cancels,
\* leaves the pending deadline timer of every other call still in flight
\* pending.
C30_OtherTimersLeftAlone ==
    [][\A j, m \in OpIds :
          (/\ j # m
           /\ opResult[j] = NoResult /\ opResult'[j] # NoResult
           /\ opResult[m] = NoResult /\ opResult'[m] = NoResult
           /\ timers[m] = "pending")
          => timers'[m] = "pending"]_vars

\* C36: concurrent without a timeout returns only after every operation it
\* has launched has settled, in unbounded and in bounded mode, with and
\* without stopOnError.
C36_ReturnsAfterAllSettled ==
    (cPc = "done" /\ timeout = 0) => \A j \in 1..nOps : opState[j] # "running"

\* A stopOnError call returned the failure of operation 1 after operations 2
\* and 3, launched with it, had settled too.
C36_Witness ==
    /\ cPc = "done" /\ timeout = 0 /\ stopOnError /\ ~bounded /\ nOps = 3
    /\ returned = <<createFailure(OpError(1))>>
    /\ opState[2] = "fulfilled" /\ opState[3] = "rejected"

\* C37: concurrent terminates: if every operation settles, the call
\* eventually returns, for every value of maxConcurrent, 0 and negative
\* values included.
C37_Terminates ==
    (cPc = "awaitAll") ~> (cPc = "done")

\* The outcomes operation j can have when it is run and no deadline is set:
\* the Result it produced if it was launched, else what its kind allows.
OutcomesOf(j) ==
    IF opResult[j] # NoResult THEN {opResult[j]}
    ELSE IF opKind[j] = "notfn" THEN {createFailure(NotFunction(j))}
    ELSE IF opKind[j] = "plain" THEN {createSuccess(OpValue(j))}
    ELSE {createSuccess(OpValue(j)), createFailure(OpError(j))}

\* What the unbounded mode returns for the outcomes f: all of them in the
\* order of operations, or under stopOnError the failure of lowest index alone.
UnboundedReturn(f) ==
    IF stopOnError /\ \E j \in 1..nOps : f[j].isError
    THEN <<f[CHOOSE j \in 1..nOps :
                /\ f[j].isError
                /\ \A m \in 1..(j - 1) : ~f[m].isError]>>
    ELSE [j \in 1..nOps |-> f[j]]

\* C39: for operations whose outcomes are fixed and no timeout, concurrent
\* returns the same list for every maxConcurrent >= 1: whatever the mode, the
\* list returned is the one the unbounded mode returns for the same outcomes
\* (the outcomes of operations a stopOnError call never launched ranging over
\* all they could be).
C39_ModesAgree ==
    (cPc = "done" /\ timeout = 0) =>
        \A f \in [1..nOps -> UNION {OutcomesOf(j) : j \in 1..nOps}] :
            (\A j \in 1..nOps : f[j] \in OutcomesOf(j)) => returned = UnboundedReturn(f)

\* A bounded stopOnError call that returned the failure of operation 2 from
\* its second chunk and never launched operation 3.
C39_Witness ==
    /\ cPc = "done" /\ timeout = 0 /\ bounded /\ maxConcurrent = 1 /\ stopOnError
    /\ nOps = 3 /\ opState[3] = "notrun" /\ opKind[3] = "async"
    /\ returned = <<createFailure(OpError(2))>>

\* The Results operation j can have.
ResultsOf(j) ==
    {createSuccess(OpValue(j)), createFailure(OpError(j)), createFailure(NotFunction(j)),
     TimeoutFailure}

\* C7: with stopOnError unset the returned list has the length of operations
\* and its element j is the Result of operation j, for every settlement order
\* and every maxConcurrent.
C7_ResultsInOperationOrder ==
    cPc = "done" /\ ~stopOnError =>
        /\ Len(returned) = nOps
        /\ \A j \in 1..nOps : returned[j] = opResult[j] /\ returned[j] \in ResultsOf(j)

C7_Witness ==
    /\ cPc = "done" /\ ~stopOnError /\ bounded /\ nOps = MaxOps
    /\ returned[1].isError /\ ~returned[2].isError /\ returned[nOps].isError

FailedOps == {j \in OpIds : opResult[j].isError}

LowestFailed == CHOOSE j \in FailedOps : \A m \in FailedOps : j <= m

\* C8: with stopOnError, when an operation that was run has failed, the returned
\* list has exactly one element, the failing Result of the lowest index, in
\* unbounded and in bounded mode.
C8_FirstFailureByIndex ==
    cPc = "done" /\ stopOnError /\ FailedOps # {} =>
        Len(returned) = 1 /\ returned[1] = opResult[LowestFailed] /\ returned[1].isError

C8_Witness ==
    /\ cPc = "done" /\ stopOnError /\ nOps = MaxOps
    /\ opState[1] = "fulfilled" /\ ~opResult[1].isError
    /\ opResult[nOps - 1].isError /\ opResult[nOps].isError
    /\ opState[nOps - 1] = "running" /\ opState[nOps] = "rejected"
    /\ returned = <<opResult[nOps - 1]>>

\* C24: concurrent: an element of operations that is not invocable yields a
\* Failure at its own index ('... is not a function'), and an operation that
\* returns a plain value yields a Success at its index; the call does not
\* raise (every launched element gets its Result), and the Results of the
\* other operations are those their own settlement or deadline gives and are
\* never changed once there.
C24_NonFunctionAndPlainValue ==
    /\ [](\A j \in 1..nOps :
            /\ (opState[j] # "notrun" /\ opKind[j] = "notfn") =>
                  opResult[j] = [data |-> Null, error |-> NotFunction(j), isError |-> TRUE]
            /\ (opState[j] # "notrun" /\ opKind[j] = "plain") =>
                  opResult[j] = [data |-> <<OpValue(j)>>, error |-> Null, isError |-> FALSE]
            /\ (opKind[j] = "async" /\ opResult[j] # NoResult) =>
                  \/ opState[j] = "fulfilled" /\ opResult[j] = createSuccess(OpValue(j))
                  \/ opState[j] = "rejected" /\ opResult[j] = createFailure(OpError(j))
                  \/ timers[j] = "fired" /\ opResult[j] = TimeoutFailure)
    /\ [](cPc = "done" /\ ~stopOnError =>
            Len(returned) = nOps /\ \A j \in 1..nOps : returned[j] = opResult[j])
    /\ [][\A j \in OpIds : opResult[j] # NoResult => opResult'[j] = opResult[j]]_vars

\* A non-function, a plain value and a fulfilling operation, each at its index.
C24_Witness ==
    /\ cPc = "done" /\ nOps = 3 /\ ~stopOnError
    /\ opKind = <<"notfn", "plain", "async">>
    /\ returned = <<createFailure(NotFunction(1)), createSuccess(OpValue(2)),
                    createSuccess(OpValue(3))>>

\* The chunk of operation j in bounded mode (chunks counted from 0).
ChunkOf(j) == (j - 1) \div maxConcurrent

Launched(j) == opState[j] # "notrun"

\* C25: concurrent in bounded mode (maxConcurrent k smaller than the number of
\* operations): operations are launched in consecutive chunks of k in list
\* order, and no operation of chunk n+1 is launched before every operation of
\* chunk n has produced its Result.
C25_ChunksDoNotOverlap ==
    (bounded /\ cPc # "idle") =>
        /\ maxConcurrent < nOps
        /\ \A a, b \in 1..nOps :
              /\ (a < b /\ Launched(b)) => Launched(a)
              /\ ChunkOf(a) = ChunkOf(b) => (Launched(a) <=> Launched(b))
              /\ (ChunkOf(a) < ChunkOf(b) /\ Launched(b)) => opResult[a] # NoResult
        /\ \A j \in OpIds : j > nOps => ~Launched(j)

\* Chunks of one: the third operation runs, the first two have their Results.
C25_Witness ==
    /\ bounded /\ maxConcurrent = 1 /\ nOps = 3
    /\ opState[3] = "running" /\ opResult[1] # NoResult /\ opResult[2] # NoResult

\* C26: concurrent in bounded mode with stopOnError: once a chunk contains a
\* failing Result, no operation of any later chunk is ever launched, and the
\* returned list is that chunk's first failure alone, the Results of earlier
\* chunks dropped.
C26_StopOnErrorStopsChunks ==
    (bounded /\ stopOnError) =>
        /\ \A a, b \in 1..nOps :
              (opResult[a].isError /\ ChunkOf(a) < ChunkOf(b)) => ~Launched(b)
        /\ (cPc = "done" /\ FailedOps # {}) =>
              /\ returned = <<opResult[LowestFailed]>>
              /\ \A a \in 1..nOps :
                    ChunkOf(a) < ChunkOf(LowestFailed) =>
                        opResult[a] # NoResult /\ opResult[a] # returned[1]

\* Chunks of one: the first operation succeeded, the second failed, the third
\* was never launched, and the list holds the second's Failure alone.
C26_Witness ==
    /\ bounded /\ stopOnError /\ cPc = "done" /\ maxConcurrent = 1 /\ nOps = 3
    /\ ~opResult[1].isError /\ opResult[1] # NoResult
    /\ returned = <<createFailure(OpError(2))>> /\ opState[3] = "notrun"

SpecIterator == InitAll /\ [][NextIterator]_vars

\* ----------------------------------------------------- claims: withIterator
\* C1: in every call in which a next() step raises, the close hook is invoked
\* exactly once in total by the time the Result is delivered.
C1_CloseOnceWhenNextRaises ==
    outerPc = "done" /\ nextRaised /\ hasReturn => returnCalls = 1

\* C6: in every call in which no next() step raises and no deadline elapses
\* (the sequence completes, maxItems is reached, onItem returns false or
\* raises), the close hook has been invoked exactly once when the Result is
\* delivered, also when the close hook itself raises.
C6_CloseOnceOtherwise ==
    outerPc = "done" /\ ~nextRaised /\ timers[IterTimer] # "fired" /\ hasReturn
        => returnCalls = 1 /\ itResult # NoResult

C6_Witness ==
    /\ outerPc = "done" /\ ~nextRaised /\ timers[IterTimer] = "cleared" /\ hasReturn
    /\ returnRaised /\ returnCalls = 1
    /\ itResult = createFailure(OnItemError)

\* C9: for every maxItems n that is set, 0 included, a Success holds at most n
\* collected items.
C9_AtMostMaxItems ==
    outerPc = "done" /\ ~itResult.isError /\ maxItemsSet => Len(itResult.data[1]) <= maxItems

\* C17: withIterator with onItem: onItem is called once for each item pulled,
\* in production order; the first item it returns false for is not appended
\* and no further item is pulled, so that the collected list is exactly the
\* items before that one, in production order.
C17_OnItemFalseStops ==
    hasOnItem =>
        /\ onItemArgs = [k \in 1..produced |-> k]
        /\ onItemCalls = produced
        /\ stopItem # 0 =>
              /\ values = [k \in 1..(stopItem - 1) |-> k]
              /\ produced = stopItem
              /\ nextCalls = stopItem
              /\ (outerPc = "done" /\ outcome = "values") => itResult = createSuccess(values)

\* onItem accepted items 1 and 2 and returned false for item 3.
C17_Witness ==
    /\ hasOnItem /\ stopItem = 3 /\ outerPc = "done"
    /\ itResult = createSuccess(<<1, 2>>)

\* C18 as stated: withIterator: when next() raises and the close hook also
\* raises, the Result is a Failure carrying the producer's error (same
\* object), never the close hook's error.
C18_ProducerErrorAlways ==
    (outerPc = "done" /\ nextRaised /\ returnRaised) =>
        itResult = createFailure(NextError)

\* C18 amended: when next() raises and the close hook also raises, the Result
\* is a Failure that never carries the close hook's error: it carries the
\* producer's error (same object), unless the deadline fired before the drain
\* had rejected, and then it is the timeout Failure.
C18_ProducerErrorUnlessTimeout ==
    (outerPc = "done" /\ nextRaised /\ returnRaised) =>
        /\ itResult.isError
        /\ itResult.error # ReturnError
        /\ outcome # "timeout" => itResult = createFailure(NextError)
        /\ outcome = "timeout" =>
              itResult = createFailure(TimeoutError("Iterator timed out", itTimeout))

\* next() raised, return() raised, and the producer's error was delivered.
C18_Witness ==
    /\ outerPc = "done" /\ nextRaised /\ returnRaised /\ outcome = "error"
    /\ itResult = createFailure(NextError)

\* C33: withIterator with a timeout: when the deadline elapses before the
\* drain finishes, the Result is the Failure "Iterator timed out after <t>ms"
\* and the close hook is invoked exactly once in total, whatever the sequence
\* does afterwards.
C33_TimeoutClosesOnce ==
    outcome = "timeout" =>
        /\ hasReturn => returnCalls = 1
        /\ outerPc = "done" =>
              itResult = createFailure(TimeoutError("Iterator timed out", itTimeout))

\* C34: withIterator: once the close hook has been invoked, next() is never
\* called on the sequence again and onItem is never called again, on every
\* exit path, the timeout included.
C34_NothingPulledAfterClose ==
    [][returnCalls >= 1 => (nextCalls' = nextCalls /\ onItemCalls' = onItemCalls)]_vars

SpecEvents == InitAll /\ [][NextEvents]_vars

\* ------------------------------------------------------- claims: withEvents
\* C5: on every exit path (operation fulfils, rejects, throws synchronously,
\* error event wins, deadline wins) the cleanup step has run exactly once when
\* the Result is delivered: the listener is removed and options.cleanup was
\* invoked once; an error event emitted after settlement neither re-runs
\* cleanup nor changes the delivered Result.
C5_CleanupExactlyOnce ==
    /\ [](evPc = "done" =>
            /\ removeCalls = 1 /\ ~evListener /\ isSettled
            /\ evCleanupCalls = (IF evHasCleanup THEN 1 ELSE 0))
    /\ [][evPc = "done" =>
            /\ evResult' = evResult
            /\ evCleanupCalls' = evCleanupCalls
            /\ removeCalls' = removeCalls]_vars

C5_Witness ==
    /\ evPc = "done" /\ evHasCleanup /\ evCleanupCalls = 1 /\ removeCalls = 1
    /\ evWinner = "value" /\ evResult = createSuccess(EvValue)
    /\ emitted = 1

\* C14: withEvents: when options.cleanup raises or rejects, the exception is
\* swallowed and the delivered Result is exactly the outcome of the race.
C14_CleanupErrorSwallowed ==
    (evPc = "done" /\ evCleanupRaised) =>
        /\ evResult = EventsResult
        /\ evResult.error # CleanupError
        /\ evResult.isError = (evWinner # "value")

\* A call whose operation's value won the race and whose cleanup hook raised.
C14_Witness ==
    evPc = "done" /\ evCleanupRaised /\ evWinner = "value" /\ evCleanupCalls = 1

\* C16: withEvents: when the error event wins the race, the Result is a
\* Failure whose error is the normalized payload: the payload itself (same
\* object) when it is an exception instance, and otherwise an exception newly
\* built, the one toError makes of the payload.
C16_ErrorEventNormalized ==
    (evPc = "done" /\ evWinner = "event") =>
        /\ evResult.isError /\ evResult.data = Null
        /\ IsError(evResult.error)
        /\ IsError(evPayload) => evResult.error = evPayload
        /\ ~IsError(evPayload) =>
              /\ evResult.error[Len(evResult.error)] = NewErrorId
              /\ ~toError(evPayload).raised => evResult.error = toError(evPayload).value

\* The event carried a plain object and won; the Failure holds the exception
\* built from its serialization.
C16_Witness ==
    /\ evPc = "done" /\ evWinner = "event"
    /\ evPayload = <<"json", "{\"custom\":\"error\"}">>
    /\ evResult = createFailure(<<"Error", "Non-error value thrown: ",
                                  "{\"custom\":\"error\"}", NewErrorId>>)

\* C31: withEvents: the contender that settles first decides the Result; in
\* particular, when the error event is emitted before the operation's promise
\* settles, also synchronously inside operation(), the Result is a Failure
\* carrying the payload of that event, never a Success.
C31_FirstSettledDecides ==
    evPc = "done" =>
        /\ evWinner = evFirst
        /\ evFirst = "event" =>
              /\ evResult.isError
              /\ IsError(evPayload) => evResult.error = evPayload

\* C40: withEvents delivers its Result only after the cleanup step has
\* finished: when the caller has the Result, the listener has been removed and
\* options.cleanup, if given, was invoked and has completed; while the hook
\* has not completed there is no Result.
C40_ResultAfterCleanup ==
    /\ evPc = "cleaning" => evResult = NoResult
    /\ evResult # NoResult =>
          /\ evPc = "done"
          /\ ~evListener /\ removeCalls = 1
          /\ evHasCleanup => evCleanupCalls = 1

\* A call with a cleanup hook that delivered the operation's value after the
\* hook had completed.
C40_Witness ==
    /\ evPc = "done" /\ evHasCleanup /\ evCleanupCalls = 1 /\ removeCalls = 1
    /\ ~evCleanupRaised /\ evOp = "fulfilled"
    /\ evResult = createSuccess(EvValue)

\* C29: withEvents with a timeout: once the call has returned because the
\* operation or the error event won the race, the deadline timer the call
\* created is no longer pending.
C29_NoTimerLeftPending ==
    (evPc = "done" /\ evTimeout # 0 /\ evWinner \in {"value", "opError", "event"}) =>
        timers[EvTimer] # "pending"

\* withEvents on a source that has other users: the caller's own listener
\* and a second withEvents call on the same event.
NextEventsOnSharedSource ==
    \/ NextEvents
    \/ CallerAttaches
    \/ SecondCall
    \/ SecondSettles

SpecEventsOnSharedSource == InitAll /\ [][NextEventsOnSharedSource]_vars

\* C32: from the start of a withEvents call until that call settles, its
\* error listener stays registered on the source (so that an error event in
\* that interval makes the call fail), also when a second withEvents call on
\* the same source and event name settles first.
C32_ListenerStaysRegistered ==
    evPc = "racing" => evListener

\* C35: withEvents leaves every listener it did not register itself on the
\* source: a listener the caller attached to the error event before the call
\* is still attached once the call has settled.
C35_CallerListenerKept ==
    (evPc = "done" /\ attached) => "caller" \in others

\* withEvents while another call that uses a deadline is in flight: one
\* concurrent() call of a single operation with a timeout.
NextEventsAmongCalls ==
    \/ NextEvents
    \/ ConcurrentCall(1, Infinity, TimeoutMs, FALSE, [j \in OpIds |-> "async"])
    \/ OpFulfil(1)
    \/ OpReject(1)
    \/ TimerFire(1)
    \/ ChunkDone

SpecEventsAmongCalls == InitAll /\ [][NextEventsAmongCalls]_vars

\* Timers that are pending fire, the cleanup hook completes and a finished
\* concurrent() call returns; no operation is obliged to settle and no error
\* event to be emitted.
FairEventsAmongCalls ==
    /\ SpecEventsAmongCalls
    /\ WF_vars(EventsTimerFire)
    /\ WF_vars(\E raised \in BOOLEAN : EventsCleanupDone(raised))
    /\ WF_vars(TimerFire(1))
    /\ WF_vars(ChunkDone)

\* C15: withEvents(source, op, {timeout: t}) with an operation that never
\* settles and no error event emitted: the call eventually returns, and what
\* a call whose deadline won the race returns is a Failure with the message
\* 'Operation timed out after <t>ms'.
C15_TimeoutEventuallyReturns ==
    /\ [](evPc = "done" /\ evWinner = "timeout" =>
            evResult = createFailure(TimeoutError("Operation timed out", evTimeout)))
    /\ [](evPc = "racing" /\ evTimeout # 0 =>
            <>(evPc = "done" \/ evOp # "pending" \/ emitted > 0))

SpecCallbacks == InitAll /\ [][NextCallbacks]_vars

\* ---------------------------------------------------- claims: withCallbacks
\* C10: the Result is fixed by the first of these to occur: setup raising, a
\* call of resolve, a call of reject, the deadline firing; nothing that
\* happens later changes the delivered Result.
C10_FirstEventFixesResult ==
    cbResult # NoResult => cbResult = cbFirst

\* C11: withCallbacks with a timeout: once resolve or reject has been called
\* before the deadline, the deadline timer is cancelled, so that it can never
\* fire afterwards; a call setup makes synchronously, before it returns, is
\* included.  (After the deadline the timer is "fired", never "pending".)
C11_TimerCancelledOnceHandlerCalled ==
    cbCalls > 0 => cbTimer # "pending"

\* C12: the cleanup closure setup returned is invoked at most once per call,
\* whatever the sequence of resolve calls, reject calls and deadline firing.
C12_CleanupAtMostOnce ==
    cbCleanupCalls <= 1

\* C13: a cleanup closure that raises never surfaces and never blocks the
\* outcome: the promise is settled as the first event asked (the value or
\* error passed to the handler, or the timeout error), and no exception leaves
\* wrappedResolve, wrappedReject or the timer callback.
C13_RaisingCleanupIsSwallowed ==
    /\ ~cbEscaped
    /\ cbFirst # NoResult => cbDeferred = cbFirst

\* C27: withCallbacks with timeout t: when neither resolve nor reject was
\* called before the deadline fired (the deadline is the first event of the
\* call), the promise is settled with the Failure "Operation timed out after
\* <t>ms", which tryCatch then delivers, and the cleanup closure setup
\* returned has been invoked.
C27_DeadlineSettlesAndCleansUp ==
    (cbTimer = "fired" /\ cbCalls = 0) =>
        /\ cbDeferred = createFailure(TimeoutError("Operation timed out", cbTimeout))
        /\ cbResult \in {NoResult, cbDeferred}
        /\ cbCleanup = "user" => cbCleanupCalls = 1

\* C38: withCallbacks: in every call that settles through resolve or reject,
\* the cleanup closure setup returned has been invoked at least once by the
\* time the Result is delivered, also when setup calls resolve or reject
\* synchronously, before it returns the closure.
C38_CleanupInvokedBeforeDelivery ==
    (/\ cbResult # NoResult
     /\ cbCleanup = "user"
     /\ cbResult # createFailure(TimeoutError("Operation timed out", cbTimeout))
     /\ cbResult # createFailure(SetupError))
    => cbCleanupCalls >= 1

SpecTryCatch == InitAll /\ [][NextTryCatch]_vars

\* C19: tryCatch never raises: for every function that throws v
\* synchronously, or returns a promise that rejects with v, the caller gets a
\* Failure whose error is toError(v), the very same object when v is already
\* an exception instance.
C19_NeverRaises ==
    \A n \in 1..Len(tcLog) :
        tcLog[n].fn \in {"throws", "rejects"} =>
            /\ ~tcLog[n].raised
            /\ tcLog[n].result.isError
            /\ IsError(tcLog[n].thrown) => tcLog[n].result.error = tcLog[n].thrown
            /\ ~toError(tcLog[n].thrown).raised =>
                  tcLog[n].result = createFailure(toError(tcLog[n].thrown).value)

\* C28: toError never fails and maps an exception instance to itself, a text
\* value to an exception with that text as message, null and undefined to
\* "Non-error value thrown: null" and "Non-error value thrown: undefined",
\* which differ, and any other value to "Non-error value thrown: " followed
\* by its serialization; stated for every value a function given to tryCatch
\* threw or rejected with.
C28_ToErrorNeverFails ==
    /\ toError(<<"null", "null">>).value # toError(<<"undefined", "undefined">>).value
    /\ \A n \in 1..Len(tcLog) :
          tcLog[n].fn \in {"throws", "rejects"} =>
              LET v == tcLog[n].thrown
                  c == toError(v)
              IN  /\ ~c.raised
                  /\ IsError(v) => c.value = v
                  /\ v[1] = "string" => c.value = <<"Error", v[2], NewErrorId>>
                  /\ v[1] = "null" =>
                        c.value = <<"Error", "Non-error value thrown: ", "null", NewErrorId>>
                  /\ v[1] = "undefined" =>
                        c.value = <<"Error", "Non-error value thrown: ", "undefined", NewErrorId>>
                  /\ v[1] \in {"json", "function", "circular"} =>
                        c.value = <<"Error", "Non-error value thrown: ", v[2], NewErrorId>>

\* C20: tryCatch(f) for a synchronous f that returns a plain value yields at
\* once, with no promise in between, {data: f(), error: null, isError: false}.
C20_SyncSuccessImmediately ==
    \A n \in 1..Len(tcLog) :
        tcLog[n].fn = "returns" =>
            /\ ~tcLog[n].suspended /\ ~tcLog[n].raised
            /\ tcLog[n].result = [data |-> <<tcLog[n].value>>, error |-> Null, isError |-> FALSE]

\* A call whose function returned 2.
C20_Witness ==
    /\ Len(tcLog) > 0 /\ tcLog[1].fn = "returns" /\ tcLog[1].value = 2
    /\ tcLog[1].result.data = <<2>>

\* One public entry point in use, whichever it is: tryCatch, withEvents,
\* withIterator, withCallbacks or concurrent, the others never called.
ConcurrentIdle == cPc = "idle"

IteratorIdle == outerPc = "idle"

EventsIdle == evPc = "idle"

CallbacksIdle == cbPc = "idle"

TryCatchIdle == tcPc = "idle" /\ tcLog = <<>>

NextAnyEntryPoint ==
    \/ IteratorIdle /\ EventsIdle /\ CallbacksIdle /\ TryCatchIdle /\ NextConcurrent
    \/ ConcurrentIdle /\ EventsIdle /\ CallbacksIdle /\ TryCatchIdle /\ NextIterator
    \/ ConcurrentIdle /\ IteratorIdle /\ CallbacksIdle /\ TryCatchIdle /\ NextEvents
    \/ ConcurrentIdle /\ IteratorIdle /\ EventsIdle /\ TryCatchIdle /\ NextCallbacks
    \/ ConcurrentIdle /\ IteratorIdle /\ EventsIdle /\ CallbacksIdle /\ NextTryCatch

SpecAnyEntryPoint == InitAll /\ [][NextAnyEntryPoint]_vars

\* The two shapes of a Result (the placeholder of a Result not produced yet
\* aside).
WellShaped(r) ==
    \/ r = NoResult
    \/ ~r.isError /\ r.error = Null /\ Len(r.data) = 1
    \/ r.isError /\ r.data = Null /\ r.error # Null /\ IsError(r.error)

\* C21: every Result produced by tryCatch, withEvents, withIterator,
\* withCallbacks and concurrent (each element) is either isError = false with
\* error = null, or isError = true with data = null and error a non-null
\* exception: isError is true exactly when error is non-null.
C21_TwoShapes ==
    /\ WellShaped(evResult) /\ (evResult.isError <=> evResult.error # Null)
    /\ WellShaped(itResult) /\ (itResult.isError <=> itResult.error # Null)
    /\ WellShaped(cbResult) /\ (cbResult.isError <=> cbResult.error # Null)
    /\ \A j \in OpIds :
          WellShaped(opResult[j]) /\ (opResult[j].isError <=> opResult[j].error # Null)
    /\ \A n \in 1..Len(returned) :
          WellShaped(returned[n]) /\ (returned[n].isError <=> returned[n].error # Null)
    /\ \A n \in 1..Len(tcLog) :
          WellShaped(tcLog[n].result)
              /\ (tcLog[n].result.isError <=> tcLog[n].result.error # Null)

\* A Failure delivered by withEvents for a payload that was no exception.
C21_Witness ==
    /\ evPc = "done" /\ evWinner = "event" /\ ~IsError(evPayload)
    /\ evResult.isError /\ evResult.data = Null /\ IsError(evResult.error)

SpecPipe == InitAll /\ [][NextPipe]_vars

\* The first step that returned a Failure, 0 when none has.
FirstFailedStep ==
    IF \E k \in 1..Len(ppReturns) : ppReturns[k].isError
    THEN CHOOSE k \in 1..Len(ppReturns) :
            ppReturns[k].isError /\ \A m \in 1..(k - 1) : ~ppReturns[m].isError
    ELSE 0

\* C22: pipe(initial, steps): when step i is the first step to return a
\* Failure, pipe returns that same Failure unchanged and no step after i is
\* ever invoked.
C22_ShortCircuit ==
    FirstFailedStep # 0 =>
        /\ ppPc = "done"
        /\ ppResult = ppReturns[FirstFailedStep]
        /\ ppResult = [data |-> Null, error |-> StepError(FirstFailedStep), isError |-> TRUE]
        /\ Len(ppCalls) = FirstFailedStep
        /\ \A k \in 1..Len(ppCalls) : ppCalls[k][1] <= FirstFailedStep

\* Of three steps the second failed: two invocations, its Failure returned.
C22_Witness ==
    /\ ppSteps = 3 /\ FirstFailedStep = 2 /\ ppPc = "done"
    /\ Len(ppCalls) = 2 /\ ppResult = createFailure(StepError(2))

\* C23: pipe(initial, steps): when no step fails, each step is invoked exactly
\* once, in list order, with the success payload of the step before it (the
\* first step with initial), and the result is a Success holding the last
\* step's payload; with an empty steps list it is a Success holding initial.
C23_ThreadsPayloads ==
    /\ \A k \in 1..Len(ppCalls) :
          /\ ppCalls[k][1] = k
          /\ ppCalls[k][2] = (IF k = 1 THEN <<ppInitial>> ELSE ppReturns[k - 1].data)
          /\ Len(ppCalls[k][2]) = 1
    /\ (ppPc = "done" /\ FirstFailedStep = 0) =>
          /\ Len(ppCalls) = ppSteps /\ Len(ppReturns) = ppSteps
          /\ ppResult = [data |-> (IF ppSteps = 0 THEN <<ppInitial>>
                                   ELSE ppReturns[ppSteps].data),
                         error |-> Null, isError |-> FALSE]

\* Three steps succeeded with 1, 2 and 1; the third was given 2.
C23_Witness ==
    /\ ppPc = "done" /\ ppSteps = 3 /\ ppInitial = 5
    /\ ppCalls = <<<<1, <<5>>>>, <<2, <<1>>>>, <<3, <<2>>>>>>
    /\ ppResult = createSuccess(1)

====
